---------------------------- MODULE Spec2Model ----------------------------
(* A model of the catalogue conversion engine of product-transformer       *)
(* (src/transformer.py): platform detection, column mapping, grouping,     *)
(* variant expansion and row synthesis.  Text is modelled at the level of  *)
(* characters: a cell or a header is a TLA+ string, read one character at  *)
(* a time with SubSeq, so the regular expressions and the clean-up         *)
(* functions are computed as the code computes them.                       *)
EXTENDS Integers, Sequences, FiniteSets, TLC

VARIABLES
    columns,      \* df.columns: the header row, in file order
    data,         \* the rows of df: each a function from header to cell
    pc,           \* position in convert_csv_path_to_shopify_csv
    file_type,    \* result of detect_file_type
    source_type,  \* the source_type argument the chosen converter passes
    common,       \* detect_common_columns(df)
    attr_names,   \* find_attribute_columns(df)[0]: ordered <<key, header>> pairs
    attr_values,  \* find_attribute_columns(df)[1]: ordered <<key, header>> pairs
    id_col,       \* the column the converter groups by
    grouped,      \* df.groupby(id_col, sort=False): groups of row positions
    gi,           \* number of groups already built
    out_rows,     \* the converter's out_rows list
    origin,       \* for each element of out_rows, the position of its group
    out_df        \* the table handed to to_csv

vars == <<columns, data, pc, file_type, source_type, common, attr_names,
          attr_values, id_col, grouped, gi, out_rows, origin, out_df>>

-----------------------------------------------------------------------------
(* Bounds of the model.                                                    *)

MaxRows == 3

-----------------------------------------------------------------------------
(* Strings.                                                                *)

Char(s, i) == SubSeq(s, i, i)

\* The characters Python's \s and str.strip() treat as blank (ASCII part).
Whitespace == {" ", "\t", "\n", "\r"}

Digits == {"0", "1", "2", "3", "4", "5", "6", "7", "8", "9"}

UpperAZ == "ABCDEFGHIJKLMNOPQRSTUVWXYZ"

LowerAZ == "abcdefghijklmnopqrstuvwxyz"

LowerMap ==
    [c \in {Char(UpperAZ, i) : i \in 1..26} |->
        Char(LowerAZ, CHOOSE i \in 1..26 : Char(UpperAZ, i) = c)]

LowerChar(c) == IF c \in DOMAIN LowerMap THEN LowerMap[c] ELSE c

RECURSIVE Lower(_)
Lower(s) == IF s = "" THEN "" ELSE LowerChar(Head(s)) \o Lower(Tail(s))

RECURSIVE LStrip(_)
LStrip(s) == IF s # "" /\ Head(s) \in Whitespace THEN LStrip(Tail(s)) ELSE s

RECURSIVE RStrip(_)
RStrip(s) ==
    IF s # "" /\ Char(s, Len(s)) \in Whitespace
    THEN RStrip(SubSeq(s, 1, Len(s) - 1))
    ELSE s

Strip(s) == RStrip(LStrip(s))

\* pat occurs in s starting at position i
At(s, i, pat) == i >= 1 /\ i + Len(pat) - 1 <= Len(s) /\ SubSeq(s, i, i + Len(pat) - 1) = pat

Contains(s, pat) == \E i \in 1..(Len(s) + 1) : At(s, i, pat)

StartsWith(s, pat) == At(s, 1, pat)

Max(S) == CHOOSE x \in S : \A y \in S : y <= x

Min(S) == CHOOSE x \in S : \A y \in S : x <= y

\* str(n) for a natural number
RECURSIVE IntToStr(_)
IntToStr(n) ==
    IF n < 10 THEN Char("0123456789", n + 1)
    ELSE IntToStr(n \div 10) \o Char("0123456789", (n % 10) + 1)

-----------------------------------------------------------------------------
(* Ordered dictionaries (Python dict): a sequence of <<key, value>> pairs  *)
(* in insertion order; assigning to a present key keeps its place.         *)

Keys(d) == [i \in 1..Len(d) |-> d[i][1]]

HasKey(d, k) == \E i \in 1..Len(d) : d[i][1] = k

Lookup(d, k) == d[CHOOSE i \in 1..Len(d) : d[i][1] = k][2]

Put(d, k, v) ==
    IF HasKey(d, k)
    THEN [i \in 1..Len(d) |-> IF d[i][1] = k THEN <<k, v>> ELSE d[i]]
    ELSE Append(d, <<k, v>>)

\* r.get(col, default) on a row
Get(r, col, default) == IF col \in DOMAIN r THEN r[col] ELSE default

-----------------------------------------------------------------------------
(* Platform detection.                                                     *)

woo_indicators ==
    <<"tipo", "type", "attribute 1", "regular price", "prezzo", "images", "immagini">>

prestashop_indicators == <<"id_product", "reference", "categories">>

\* sum(1 for ind in indicators if any(ind in c for c in cols))
Matched(indicators, cols) ==
    Cardinality({k \in 1..Len(indicators) :
        \E j \in 1..Len(cols) : Contains(cols[j], indicators[k])})

\* detect_file_type with one matched WooCommerce term taken as enough
detect_file_type_one_term(cols0) ==
    LET cols == [j \in 1..Len(cols0) |-> Lower(cols0[j])]
    IN  IF \E j \in 1..Len(cols) : Contains(cols[j], "media")
        THEN "wix"
        ELSE IF Matched(woo_indicators, cols) >= 1 THEN "woocommerce"
        ELSE IF Matched(prestashop_indicators, cols) >= 2 THEN "prestashop"
        ELSE "unknown"

detect_file_type(cols0) ==
    LET cols == [j \in 1..Len(cols0) |-> Lower(cols0[j])]
    IN  IF \E j \in 1..Len(cols) :
              Contains(cols[j], "media") \/ Contains(cols[j], "product_media")
        THEN "wix"
        ELSE IF Matched(woo_indicators, cols) >= 2 THEN "woocommerce"
        ELSE IF Matched(prestashop_indicators, cols) >= 2 THEN "prestashop"
        ELSE "unknown"

-----------------------------------------------------------------------------
(* Column detection.                                                       *)

\* "no column": find_any returns None, which every use tests for truth
\* only.  pandas never yields an empty header (a blank header is read as
\* "Unnamed: n"), so the empty string stands for None.
NoCol == ""

\* lower_map = {c.lower(): c for c in df.columns}: a later header with the
\* same lower-case form replaces an earlier one.
LowerMapOf(cols) ==
    LET F[j \in 0..Len(cols)] ==
            IF j = 0 THEN <<>> ELSE Put(F[j - 1], Lower(cols[j]), cols[j])
    IN  F[Len(cols)]

find_any(lower_map, candidates) ==
    LET hits == {k \in 1..Len(candidates) : HasKey(lower_map, Lower(candidates[k]))}
    IN  IF hits = {} THEN NoCol ELSE Lookup(lower_map, Lower(candidates[Min(hits)]))

TypeCandidates == <<"Type", "Tipo", "post_type", "Product type">>

CommonOf(lm) ==
    [id         |-> find_any(lm, <<"ID", "id", "post_id", "product_id", "handleid">>),
     title      |-> find_any(lm, <<"Name", "Nome", "post_title", "title", "Title">>),
     price      |-> find_any(lm, <<"Regular price", "Prezzo", "Price", "regular_price", "price">>),
     sale_price |-> find_any(lm, <<"Sale price", "Prezzo scontato", "sale_price", "compare_at_price">>),
     sku        |-> find_any(lm, <<"SKU", "sku">>),
     barcode    |-> find_any(lm, <<"Barcode", "barcode", "ean", "EAN", "gtin">>),
     stock      |-> find_any(lm, <<"Stock", "Stock quantity", "Quantity", "quantity", "stock_quantity", "Giacenza">>),
     images     |-> find_any(lm, <<"Images", "Immagini", "Gallery", "Image", "media", "media url", "product_media">>),
     desc       |-> find_any(lm, <<"Description", "Descrizione", "post_content", "body", "Body (HTML)">>),
     weight     |-> find_any(lm, <<"Weight", "Peso", "weight", "weight_kg", "weight_g", "Variant Grams">>),
     type       |-> find_any(lm, TypeCandidates),
     tags       |-> find_any(lm, <<"Tags", "tags", "Tag">>),
     vendor     |-> find_any(lm, <<"Vendor", "vendor", "brand", "marca">>)]

detect_common_columns(cols) == CommonOf(LowerMapOf(cols))

\* Last position of the run of digits that starts at position i.
RECURSIVE DigitRunEnd(_, _)
DigitRunEnd(s, i) ==
    IF i + 1 <= Len(s) /\ Char(s, i + 1) \in Digits THEN DigitRunEnd(s, i + 1) ELSE i

\* First position at or after i that is not blank (Len(s) + 1 if none).
RECURSIVE SkipBlanks(_, _)
SkipBlanks(s, i) ==
    IF i <= Len(s) /\ Char(s, i) \in Whitespace THEN SkipBlanks(s, i + 1) ELSE i

DigitPositionsFrom(s, i) == {p \in i..Len(s) : Char(s, p) \in Digits}

\* group(1) of re.search(w1 ".*" w2 ".*?(\d+)", s), or "" when there is no
\* match: the greedy .* takes the last w2 that still has a digit after it,
\* the lazy .*? stops at the first digit after that w2, \d+ takes the run.
SearchWordsIndex(s, w1, w2) ==
    LET starts == {i \in 1..Len(s) : At(s, i, w1)}
    IN  IF starts = {} THEN ""
        ELSE LET a  == Min(starts)
                 ns == {n \in (a + Len(w1))..Len(s) :
                          At(s, n, w2) /\ DigitPositionsFrom(s, n + Len(w2)) # {}}
             IN  IF ns = {} THEN ""
                 ELSE LET p == Min(DigitPositionsFrom(s, Max(ns) + Len(w2)))
                      IN  SubSeq(s, p, DigitRunEnd(s, p))

\* group(1) of re.search("attribute\s*(\d+)(?!\s*name)", s) tried at the
\* occurrence of "attribute" at position a, or "" when it fails there: the
\* whole run of digits unless "name" follows it, else the run less its last
\* digit (the lookahead then sees a digit), else no match.
BareIndexAt(s, a) ==
    LET q == SkipBlanks(s, a + Len("attribute"))
    IN  IF ~(q <= Len(s) /\ Char(s, q) \in Digits) THEN ""
        ELSE LET e == DigitRunEnd(s, q)
             IN  IF ~At(s, SkipBlanks(s, e + 1), "name") THEN SubSeq(s, q, e)
                 ELSE IF e > q THEN SubSeq(s, q, e - 1)
                 ELSE ""

SearchBareIndex(s) ==
    LET ok == {a \in 1..Len(s) : At(s, a, "attribute") /\ BareIndexAt(s, a) # ""}
    IN  IF ok = {} THEN "" ELSE BareIndexAt(s, Min(ok))

SlugChars == {Char(LowerAZ, i) : i \in 1..26} \cup {"_"}

\* 'attribute_pa_' in lc or re.match(r'attribute_[a-z_]+$', lc)
IsSlugAttribute(lc) ==
    \/ Contains(lc, "attribute_pa_")
    \/ /\ StartsWith(lc, "attribute_")
       /\ LET rest0 == SubSeq(lc, Len("attribute_") + 1, Len(lc))
              rest  == IF rest0 # "" /\ Char(rest0, Len(rest0)) = "\n"
                       THEN SubSeq(rest0, 1, Len(rest0) - 1) ELSE rest0
          IN  rest # "" /\ \A i \in 1..Len(rest) : Char(rest, i) \in SlugChars

\* One iteration of the loop over df.columns; acc = <<attr_names, attr_values>>.
AttributeStep(acc, c) ==
    LET lc     == Lower(c)
        m_name == SearchWordsIndex(lc, "attribute", "name")
        m_it   == SearchWordsIndex(lc, "nome", "attributo")
        m_val  == SearchWordsIndex(lc, "attribute", "value")
        m_val2 == SearchBareIndex(lc)
    IN  IF m_name # "" THEN <<Put(acc[1], m_name, c), acc[2]>>
        ELSE IF m_it # "" THEN <<Put(acc[1], m_it, c), acc[2]>>
        ELSE IF m_val # "" THEN <<acc[1], Put(acc[2], m_val, c)>>
        ELSE IF m_val2 # ""
             THEN IF HasKey(acc[2], m_val2) THEN acc ELSE <<acc[1], Put(acc[2], m_val2, c)>>
        ELSE IF IsSlugAttribute(lc) THEN <<acc[1], Put(acc[2], lc, c)>>
        ELSE acc

RECURSIVE AttributeScan(_, _, _)
AttributeScan(cols, j, acc) ==
    IF j > Len(cols) THEN acc ELSE AttributeScan(cols, j + 1, AttributeStep(acc, cols[j]))

find_attribute_columns(cols) == AttributeScan(cols, 1, <<<<>>, <<>>>>)

-----------------------------------------------------------------------------
(* Text normalizers and cell parsers.                                      *)

Letters == {Char(LowerAZ, i) : i \in 1..26} \cup {Char(UpperAZ, i) : i \in 1..26}

\* \w once the text has been reduced to ASCII
WordChars == Letters \cup Digits \cup {"_"}

\* ASCII punctuation (the grave accent cannot be written in a TLA+ string;
\* slugify removes it like any other punctuation)
AsciiPunct == " !\"#$%&'()*+,-./:;<=>?@[\\]^_{|}~"

AsciiChars == WordChars \cup Whitespace \cup {Char(AsciiPunct, i) : i \in 1..Len(AsciiPunct)}

\* unicodedata.normalize("NFKD", s).encode("ascii", "ignore"): an accented
\* letter keeps its base letter, any other non-ASCII character is dropped.
Decomposed == [c \in {"é", "è", "à", "ù", "ò", "ì"} |->
                 CASE c \in {"é", "è"} -> "e" [] c = "à" -> "a" [] c = "ù" -> "u"
                   [] c = "ò" -> "o" [] c = "ì" -> "i"]

RECURSIVE ToAscii(_)
ToAscii(s) ==
    IF s = "" THEN ""
    ELSE (IF Head(s) \in AsciiChars THEN Head(s)
          ELSE IF Head(s) \in DOMAIN Decomposed THEN Decomposed[Head(s)]
          ELSE "") \o ToAscii(Tail(s))

\* re.sub("[...]", "", s) for a class of single characters
RECURSIVE RemoveChars(_, _)
RemoveChars(s, class) ==
    IF s = "" THEN ""
    ELSE (IF Head(s) \in class THEN "" ELSE Head(s)) \o RemoveChars(Tail(s), class)

RECURSIVE KeepChars(_, _)
KeepChars(s, class) ==
    IF s = "" THEN ""
    ELSE (IF Head(s) \in class THEN Head(s) ELSE "") \o KeepChars(Tail(s), class)

\* re.sub("[class]+", rep, s): every maximal run of class characters becomes rep
RECURSIVE CollapseRuns(_, _, _)
CollapseRuns(s, class, rep) ==
    IF s = "" THEN ""
    ELSE IF Head(s) \in class
         THEN IF Len(s) >= 2 /\ Char(s, 2) \in class
              THEN CollapseRuns(Tail(s), class, rep)
              ELSE rep \o CollapseRuns(Tail(s), class, rep)
         ELSE Head(s) \o CollapseRuns(Tail(s), class, rep)

slugify(value) ==
    IF value = "" THEN ""
    ELSE LET s1 == ToAscii(value)
             s2 == Lower(Strip(KeepChars(s1, WordChars \cup Whitespace \cup {"-"})))
             s3 == CollapseRuns(s2, Whitespace \cup {"-"}, "-")
         IN  IF s3 = "" THEN "product" ELSE s3

\* re.split on single delimiter characters: the pieces, empty ones included.
\* The code's patterns also take the blanks around a delimiter, or a whole
\* run of delimiters, as one separator; since every piece is then stripped
\* and the empty ones dropped, the kept pieces are the same.
RECURSIVE SplitOn(_, _, _)
SplitOn(s, delims, piece) ==
    IF s = "" THEN <<piece>>
    ELSE IF Head(s) \in delims THEN <<piece>> \o SplitOn(Tail(s), delims, "")
    ELSE SplitOn(Tail(s), delims, piece \o Head(s))

\* [p.strip() for p in parts if p.strip()]
RECURSIVE StripPieces(_)
StripPieces(parts) ==
    IF parts = <<>> THEN <<>>
    ELSE (IF Strip(Head(parts)) = "" THEN <<>> ELSE <<Strip(Head(parts))>>)
         \o StripPieces(Tail(parts))

split_images(cell) ==
    LET s == Strip(cell)
    IN  IF s = "" THEN <<>> ELSE StripPieces(SplitOn(s, {"\n", ",", "|", ";"}, ""))

Backslash == Char("\\.", 1)

RECURSIVE LStripChar(_, _)
LStripChar(s, c) == IF s # "" /\ Head(s) = c THEN LStripChar(Tail(s), c) ELSE s

to_wix_url(filename0) ==
    IF filename0 = "" THEN ""
    ELSE LET filename == Strip(filename0)
         IN  IF StartsWith(filename, "http://") \/ StartsWith(filename, "https://")
             THEN filename
             ELSE IF Contains(filename, "static.wixstatic.com") THEN filename
             ELSE "https://static.wixstatic.com/media/"
                    \o LStripChar(LStripChar(filename, "/"), Backslash)

parse_attribute_values(val) ==
    IF Strip(val) = "" THEN <<>>
    ELSE StripPieces(SplitOn(Strip(val), {"|", ",", ";"}, ""))

\* digit (["_"] digit)*
DigitPart(s) ==
    /\ s # ""
    /\ \A i \in 1..Len(s) : Char(s, i) \in Digits \cup {"_"}
    /\ Char(s, 1) \in Digits /\ Char(s, Len(s)) \in Digits
    /\ ~Contains(s, "__")

Mantissa(s) ==
    LET dots == {i \in 1..Len(s) : Char(s, i) = "."}
    IN  IF dots = {} THEN DigitPart(s)
        ELSE LET a == SubSeq(s, 1, Min(dots) - 1)
                 b == SubSeq(s, Min(dots) + 1, Len(s))
             IN  /\ a = "" \/ DigitPart(a)
                 /\ b = "" \/ DigitPart(b)
                 /\ ~(a = "" /\ b = "")

Unsigned(s) == IF s # "" /\ Head(s) \in {"+", "-"} THEN Tail(s) ELSE s

\* float(s) succeeds
IsFloat(s0) ==
    LET s  == Unsigned(Strip(s0))
        es == {i \in 1..Len(s) : Char(s, i) \in {"e", "E"}}
    IN  \/ Lower(s) \in {"inf", "infinity", "nan"}
        \/ es = {} /\ Mantissa(s)
        \/ /\ es # {}
           /\ Mantissa(SubSeq(s, 1, Min(es) - 1))
           /\ DigitPart(Unsigned(SubSeq(s, Min(es) + 1, Len(s))))

RECURSIVE ReplaceChar(_, _, _)
ReplaceChar(s, c, d) ==
    IF s = "" THEN ""
    ELSE (IF Head(s) = c THEN d ELSE Head(s)) \o ReplaceChar(Tail(s), c, d)

clean_price(price_val) ==
    LET s1 == RemoveChars(Strip(price_val), {"€", "$", "£", ","} \cup Whitespace)
        s2 == ReplaceChar(s1, ",", ".")  \* finds no comma: each is removed above
    IN  IF IsFloat(s2) THEN s2 ELSE ""

\* re.sub(r"(kg|g|gr|grams?|kilos?)", "", s): at each position the first
\* alternative that matches is removed
RECURSIVE RemoveUnits(_)
RemoveUnits(s) ==
    IF s = "" THEN ""
    ELSE IF StartsWith(s, "kg") THEN RemoveUnits(SubSeq(s, 3, Len(s)))
    ELSE IF StartsWith(s, "g") THEN RemoveUnits(SubSeq(s, 2, Len(s)))
    ELSE IF StartsWith(s, "gr") THEN RemoveUnits(SubSeq(s, 3, Len(s)))
    ELSE IF StartsWith(s, "grams") THEN RemoveUnits(SubSeq(s, 6, Len(s)))
    ELSE IF StartsWith(s, "gram") THEN RemoveUnits(SubSeq(s, 5, Len(s)))
    ELSE IF StartsWith(s, "kilos") THEN RemoveUnits(SubSeq(s, 6, Len(s)))
    ELSE IF StartsWith(s, "kilo") THEN RemoveUnits(SubSeq(s, 5, Len(s)))
    ELSE Head(s) \o RemoveUnits(Tail(s))

RECURSIVE StrToNat(_)
StrToNat(s) ==
    IF s = "" THEN 0
    ELSE 10 * StrToNat(SubSeq(s, 1, Len(s) - 1))
         + (CHOOSE d \in 0..9 : Char("0123456789", d + 1) = Char(s, Len(s)))

\* str(int(w)) for w = float(s), scaled by 1000 when w < 10.  Covered: a
\* plain decimal with at most one fractional digit, for which the binary
\* arithmetic of the code is exact, and inf/nan, on which int() raises.
WeightGrams(s0) ==
    LET s    == Strip(s0)
        neg  == s # "" /\ Head(s) = "-"
        u    == Unsigned(s)
        dots == {i \in 1..Len(u) : Char(u, i) = "."}
        ip   == IF dots = {} THEN u ELSE SubSeq(u, 1, Min(dots) - 1)
        fp   == IF dots = {} THEN "" ELSE SubSeq(u, Min(dots) + 1, Len(u))
        I    == StrToNat(ip)
        F    == StrToNat(fp)
        mag  == IF neg \/ I < 10 THEN I * 1000 + F * 100 ELSE I
    IN  CASE Lower(u) \in {"inf", "infinity", "nan"} -> ""
          [] /\ \A i \in 1..Len(u) : Char(u, i) \in Digits \cup {"."}
             /\ Len(fp) <= 1 ->
                IF neg /\ mag > 0 THEN "-" \o IntToStr(mag) ELSE IntToStr(mag)

clean_weight(weight_val) ==
    LET s1 == Strip(RemoveUnits(Lower(Strip(weight_val))))
        s2 == ReplaceChar(s1, ",", ".")
    IN  IF IsFloat(s2) THEN WeightGrams(s2) ELSE ""

-----------------------------------------------------------------------------
(* The Shopify row builder.                                                *)

SHOPIFY_COLUMNS ==
    <<"Handle", "Title", "Body (HTML)", "Vendor", "Product Category", "Type", "Tags",
      "Published", "Option1 Name", "Option1 Value", "Option2 Name", "Option2 Value",
      "Option3 Name", "Option3 Value", "Variant SKU", "Variant Grams", "Variant Inventory Tracker",
      "Variant Inventory Qty", "Variant Inventory Policy", "Variant Fulfillment Service",
      "Variant Price", "Variant Compare At Price", "Variant Requires Shipping", "Variant Taxable",
      "Variant Barcode", "Image Src", "Image Position", "Image Alt Text", "Gift Card",
      "SEO Title", "SEO Description", "Google Shopping / Google Product Category",
      "Google Shopping / Gender", "Google Shopping / Age Group", "Google Shopping / MPN",
      "Google Shopping / AdWords Grouping", "Google Shopping / AdWords Labels",
      "Google Shopping / Condition", "Google Shopping / Custom Product",
      "Google Shopping / Custom Label 0", "Google Shopping / Custom Label 1",
      "Google Shopping / Custom Label 2", "Google Shopping / Custom Label 3",
      "Google Shopping / Custom Label 4", "Variant Image", "Variant Weight Unit",
      "Variant Tax Code", "Cost per item", "Status">>

ColumnSet == {SHOPIFY_COLUMNS[i] : i \in 1..Len(SHOPIFY_COLUMNS)}

\* RowOf without the initial {c: "" for c in SHOPIFY_COLUMNS}
RowOfAssignedOnly(kvs) ==
    [c \in {kvs[i][1] : i \in 1..Len(kvs)} |->
        kvs[Max({i \in 1..Len(kvs) : kvs[i][1] = c})][2]]

\* r = {c: "" for c in SHOPIFY_COLUMNS} followed by the assignments
\* r[k] = v of kvs, made in order: a key holds the value last assigned to
\* it, a canonical column never assigned holds "", and an assigned key
\* outside the canonical columns is added to the dict.
RowOf(kvs) ==
    [c \in ColumnSet \cup {kvs[i][1] : i \in 1..Len(kvs)} |->
        LET hits == {i \in 1..Len(kvs) : kvs[i][1] = c}
        IN  IF hits = {} THEN "" ELSE kvs[Max(hits)][2]]

\* [to_wix_url(i) for i in imgs]
WixUrls(imgs) == [i \in 1..Len(imgs) |-> to_wix_url(imgs[i])]

\* str(master.get(common[f], "")).strip() if common.get(f) else dflt
MasterText(master, col, dflt) == IF col # NoCol THEN Strip(Get(master, col, "")) ELSE dflt

\* the product-level and master-level values read from the first row
MasterFields(master, name, cm, src) ==
    LET title == MasterText(master, cm.title, "")
        imgs  == IF cm.images # NoCol THEN split_images(Get(master, cm.images, "")) ELSE <<>>
    IN  [title        |-> title,
         handle       |-> IF slugify(title) # "" THEN slugify(title)
                          ELSE "product-" \o IntToStr(name),
         desc         |-> MasterText(master, cm.desc, ""),
         vendor       |-> MasterText(master, cm.vendor, ""),
         tags         |-> MasterText(master, cm.tags, ""),
         product_type |-> MasterText(master, cm.type, ""),
         price  |-> IF cm.price # NoCol THEN clean_price(Get(master, cm.price, "")) ELSE "",
         sale   |-> IF cm.sale_price # NoCol THEN clean_price(Get(master, cm.sale_price, "")) ELSE "",
         stock  |-> MasterText(master, cm.stock, "0"),
         sku    |-> MasterText(master, cm.sku, ""),
         barcode |-> MasterText(master, cm.barcode, ""),
         weight |-> IF cm.weight # NoCol THEN clean_weight(Get(master, cm.weight, "")) ELSE "",
         imgs   |-> IF src = "wix" THEN WixUrls(imgs) ELSE imgs]

\* the lambda of group.apply: the row is an explicit variant row
IsVariationRow(r) ==
    \/ Lower(Get(r, "Type", "")) = "variation"
    \/ Lower(Get(r, "type", "")) = "variation"

\* group[group.apply(lambda r: ..., axis=1)]: the rows the lambda holds of,
\* in file order
VariationRows(group) ==
    LET F[i \in 0..Len(group)] ==
            IF i = 0 THEN <<>>
            ELSE IF IsVariationRow(group[i]) THEN Append(F[i - 1], group[i]) ELSE F[i - 1]
    IN  F[Len(group)]

\* opt_vals of one variant row: the non-blank cells of the registered value
\* columns, in the order of attr_value_map
OptionValuesOf(vr, values) ==
    LET F[i \in 0..Len(values)] ==
            IF i = 0 THEN <<>>
            ELSE LET col == values[i][2]
                 IN  IF col \in DOMAIN vr /\ Strip(vr[col]) # ""
                     THEN Append(F[i - 1], Strip(vr[col]))
                     ELSE F[i - 1]
    IN  F[Len(values)]

\* the variant record of one explicit variant row
ExplicitVariant(vr, m, cm, values, src) ==
    LET imgs0 == IF cm.images # NoCol /\ Get(vr, cm.images, "") # ""
                 THEN split_images(Get(vr, cm.images, ""))
                 ELSE m.imgs
    IN  [sku     |-> IF cm.sku # NoCol THEN Strip(Get(vr, cm.sku, m.sku)) ELSE m.sku,
         price   |-> IF cm.price # NoCol THEN clean_price(Get(vr, cm.price, m.price)) ELSE m.price,
         compare_at_price |->
                     IF cm.sale_price # NoCol THEN clean_price(Get(vr, cm.sale_price, m.sale))
                     ELSE m.sale,
         stock   |-> IF cm.stock # NoCol THEN Strip(Get(vr, cm.stock, m.stock)) ELSE m.stock,
         barcode |-> IF cm.barcode # NoCol THEN Strip(Get(vr, cm.barcode, m.barcode))
                     ELSE m.barcode,
         weight  |-> IF cm.weight # NoCol THEN clean_weight(Get(vr, cm.weight, m.weight))
                     ELSE m.weight,
         images  |-> IF src = "wix" THEN WixUrls(imgs0) ELSE imgs0,
         options |-> OptionValuesOf(vr, values)]

\* the variant record that inherits every master value
MasterVariant(m, opts) ==
    [sku |-> m.sku, price |-> m.price, compare_at_price |-> m.sale, stock |-> m.stock,
     barcode |-> m.barcode, weight |-> m.weight, images |-> m.imgs, options |-> opts]

\* lists gathered through the name columns: for each name column whose index
\* has a value column with a non-empty master cell
ListsByName(master, names, values) ==
    LET F[i \in 0..Len(names)] ==
            IF i = 0 THEN <<>>
            ELSE LET idx == names[i][1]
                 IN  IF HasKey(values, idx) /\ Get(master, Lookup(values, idx), "") # ""
                     THEN Append(F[i - 1],
                                 parse_attribute_values(Get(master, Lookup(values, idx), "")))
                     ELSE F[i - 1]
    IN  F[Len(names)]

\* lists gathered from the value columns alone
ListsByValue(master, values) ==
    LET F[i \in 0..Len(values)] ==
            IF i = 0 THEN <<>>
            ELSE LET v == Get(master, values[i][2], "")
                 IN  IF v # "" /\ Strip(v) # ""
                     THEN Append(F[i - 1], parse_attribute_values(v))
                     ELSE F[i - 1]
    IN  F[Len(values)]

\* the attribute-value lists discovered on the master row
DiscoveredLists(master, names, values) ==
    IF ListsByName(master, names, values) # <<>>
    THEN ListsByName(master, names, values)
    ELSE IF values # <<>> THEN ListsByValue(master, values)
    ELSE <<>>

\* Product with the lists walked in step (zip) instead of combined
ProductInStep(lists) ==
    IF lists = <<>> THEN << <<>> >>
    ELSE [i \in 1..Min({Len(lists[j]) : j \in 1..Len(lists)}) |->
            [j \in 1..Len(lists) |-> lists[j][i]]]

\* list(itertools.product(*lists)): the combinations, the last list varying
\* fastest
RECURSIVE Product(_)
Product(lists) ==
    IF lists = <<>> THEN << <<>> >>
    ELSE LET rest == Product(Tail(lists))
             G[i \in 0..Len(Head(lists))] ==
                 IF i = 0 THEN <<>>
                 ELSE G[i - 1] \o [j \in 1..Len(rest) |-> <<Head(lists)[i]>> \o rest[j]]
         IN  G[Len(Head(lists))]

\* the variants list of a group
Variants(group, m, cm, names, values, src) ==
    LET var_rows == VariationRows(group)
        lists    == DiscoveredLists(group[1], names, values)
    IN  IF var_rows # <<>>
        THEN [i \in 1..Len(var_rows) |-> ExplicitVariant(var_rows[i], m, cm, values, src)]
        ELSE IF lists # <<>>
             THEN [i \in 1..Len(Product(lists)) |-> MasterVariant(m, Product(lists)[i])]
             ELSE <<MasterVariant(m, <<>>)>>

\* int(re.search(r'\d+', str(k)).group(0)): the sort key of a dictionary key
\* that holds a digit
NumKey(k) ==
    LET p == Min(DigitPositionsFrom(k, 1)) IN StrToNat(SubSeq(k, p, DigitRunEnd(k, p)))

\* the keys left in the order of their insertion, unsorted
KeysAsInserted(d) == d

\* sorted(d.keys(), key=NumKey): stable, equal keys keep insertion order
SortedByNumKey(d) ==
    LET Insert(sorted, e) ==
            LET n == Cardinality({j \in 1..Len(sorted) : NumKey(sorted[j][1]) <= NumKey(e[1])})
            IN  SubSeq(sorted, 1, n) \o <<e>> \o SubSeq(sorted, n + 1, Len(sorted))
        F[i \in 0..Len(d)] == IF i = 0 THEN <<>> ELSE Insert(F[i - 1], d[i])
    IN  F[Len(d)]

\* option_names_final.  Every key of attr_name_map is a run of digits (the
\* group of a regular expression), so its sort never raises.  Without name
\* columns the loop over the value keys ignores the key it visits: it yields
\* "Option1" .. "OptionN" whatever order the sort (or its fallback) gives.
OptionNamesFinal(master, names, values) ==
    IF names # <<>>
    THEN [i \in 1..Len(names) |->
            Get(master, SortedByNumKey(names)[i][2], "Option" \o IntToStr(i))]
    ELSE [i \in 1..Len(values) |-> "Option" \o IntToStr(i)]

\* the assignments of the "Opzioni" block for variant v
OptionAssignments(onf, v) ==
    (IF Len(onf) > 0
     THEN << <<"Option1 Name", onf[1]>>,
             <<"Option1 Value", IF Len(v.options) > 0 THEN v.options[1] ELSE "Default Title">> >>
     ELSE <<>>)
    \o (IF Len(onf) > 1
        THEN << <<"Option2 Name", onf[2]>>,
                <<"Option2 Value", IF Len(v.options) > 1 THEN v.options[2] ELSE "">> >>
        ELSE <<>>)
    \o (IF Len(onf) > 2
        THEN << <<"Option3 Name", onf[3]>>,
                <<"Option3 Value", IF Len(v.options) > 2 THEN v.options[3] ELSE "">> >>
        ELSE <<>>)

\* the product-level assignments made on every row of the group
ProductAssignmentsOnEveryRow(m, first) ==
    << <<"Handle", m.handle>>, <<"Title", m.title>>, <<"Body (HTML)", m.desc>>,
       <<"Vendor", m.vendor>>, <<"Type", m.product_type>>, <<"Tags", m.tags>>,
       <<"Published", "TRUE">>, <<"Status", "active">> >>

\* the assignments made only when first is true, or only the handle
ProductAssignments(m, first) ==
    IF first
    THEN << <<"Handle", m.handle>>, <<"Title", m.title>>, <<"Body (HTML)", m.desc>>,
            <<"Vendor", m.vendor>>, <<"Type", m.product_type>>, <<"Tags", m.tags>>,
            <<"Published", "TRUE">>, <<"Status", "active">> >>
    ELSE << <<"Handle", m.handle>> >>

VariantAssignments(v) ==
    << <<"Variant SKU", v.sku>>, <<"Variant Price", v.price>>,
       <<"Variant Compare At Price", v.compare_at_price>>,
       <<"Variant Inventory Qty", v.stock>>, <<"Variant Barcode", v.barcode>>,
       <<"Variant Grams", v.weight>>, <<"Variant Weight Unit", "g">>,
       <<"Variant Inventory Tracker", "shopify">>, <<"Variant Inventory Policy", "deny">>,
       <<"Variant Fulfillment Service", "manual">>, <<"Variant Requires Shipping", "TRUE">>,
       <<"Variant Taxable", "TRUE">> >>

ImageAssignments(v, first) ==
    IF v.images # <<>>
    THEN (IF first
          THEN << <<"Image Src", v.images[1]>>, <<"Image Position", "1">> >>
          ELSE <<>>)
         \o << <<"Variant Image", v.images[1]>> >>
    ELSE <<>>

\* one iteration of "for v in variants"
ShopifyRow(v, first, m, onf) ==
    RowOf(ProductAssignments(m, first) \o OptionAssignments(onf, v)
          \o VariantAssignments(v) \o ImageAssignments(v, first))

\* group: the rows of one product, in file order; name: the index label of
\* its first row (master.name)
build_shopify_rows_from_group(group, name, cm, names, values, src) ==
    LET master   == group[1]
        m        == MasterFields(master, name, cm, src)
        variants == Variants(group, m, cm, names, values, src)
        onf      == OptionNamesFinal(master, names, values)
    IN  [i \in 1..Len(variants) |-> ShopifyRow(variants[i], i = 1, m, onf)]

-----------------------------------------------------------------------------
(* The converters.                                                         *)

\* the identifier column taken from the mapping alone, the row position
\* standing in whenever no header maps to the id field
IdColumnOrRowPosition(cols, cm) == cm.id

\* id_col = common.get('id') or (df.columns[0] if len(df.columns) > 0 else None);
\* NoCol stands for the 'ID' column that reset_index() makes of the row index.
IdColumn(cols, cm) ==
    IF cm.id # NoCol THEN cm.id ELSE IF Len(cols) > 0 THEN cols[1] ELSE NoCol

\* the value a row is grouped by
GroupKey(rows, i, idc) == IF idc = NoCol THEN IntToStr(i - 1) ELSE rows[i][idc]

\* GroupBy that starts a new group wherever the key changes from one row to
\* the next, so that a key met again later opens a second group
GroupByRuns(rows, idc) ==
    LET starts == {i \in 1..Len(rows) :
                     i = 1 \/ GroupKey(rows, i - 1, idc) # GroupKey(rows, i, idc)}
        EndOf(i) == Min({j \in i..Len(rows) : j = Len(rows) \/ (j + 1) \in starts})
        F[i \in 0..Len(rows)] ==
            IF i = 0 THEN <<>>
            ELSE IF i \in starts
                 THEN Append(F[i - 1], [j \in 1..(EndOf(i) - i + 1) |-> i + j - 1])
                 ELSE F[i - 1]
    IN  F[Len(rows)]

\* the positions of the rows that hold the key of row i, in file order
RowsWithKeyOf(rows, i, idc) ==
    LET F[j \in 0..Len(rows)] ==
            IF j = 0 THEN <<>>
            ELSE IF GroupKey(rows, j, idc) = GroupKey(rows, i, idc)
                 THEN Append(F[j - 1], j) ELSE F[j - 1]
    IN  F[Len(rows)]

\* df.groupby(id_col, dropna=False, sort=False): one group per distinct key,
\* in the order of the keys' first rows; each group lists its row positions
\* in file order.
GroupBy(rows, idc) ==
    LET firsts == {i \in 1..Len(rows) :
                     \A j \in 1..(i - 1) : GroupKey(rows, j, idc) # GroupKey(rows, i, idc)}
        F[i \in 0..Len(rows)] ==
            IF i = 0 THEN <<>>
            ELSE IF i \in firsts
                 THEN Append(F[i - 1],
                        RowsWithKeyOf(rows, i, idc))
                 ELSE F[i - 1]
    IN  F[Len(rows)]

\* pd.DataFrame(out_rows, columns=SHOPIFY_COLUMNS).fillna(""): exactly the
\* canonical columns; a key a row lacks is NaN, then "".
DataFrameOf(rows) ==
    [i \in 1..Len(rows) |->
        [c \in ColumnSet |-> IF c \in DOMAIN rows[i] THEN rows[i][c] ELSE ""]]

RowsOfGroup(rows, g) == [i \in 1..Len(g) |-> rows[g[i]]]

-----------------------------------------------------------------------------
(* The source tables of the model: a header row and, for each header, the  *)
(* cells a row may hold under it.  A table is any sequence of at most      *)
(* MaxRows rows of one layout.                                             *)

Layouts ==
    << \* WooCommerce, a parent row and its variation rows
       << <<"ID", {"7"}>>, <<"Type", {"variable", "variation"}>>,
          <<"SKU", {"", "S-1"}>>, <<"Regular price", {"", "$ 10"}>> >>,
       << <<"ID", {"7"}>>, <<"Type", {"variation"}>>, <<"Stock", {"", "5"}>>,
          <<"Weight", {"", "1.5 kg"}>>, <<"Barcode", {"", "800"}>> >>,
       \* products that share or do not share an identifier
       << <<"ID", {"1", "2"}>>, <<"Name", {"Mug", "Cap"}>>,
          <<"Type", {"simple", "Variation"}>> >>,
       \* no identifier column
       << <<"Name", {"Mug", "Cap", ""}>>, <<"Regular price", {"5", "7"}>> >>,
       \* an Italian WooCommerce export
       << <<"ID", {"1"}>>, <<"Tipo", {"variable", "variation"}>>,
          <<"Nome", {"Maglia"}>>, <<"Prezzo", {"9,50", "€ 19,99", ""}>> >>,
       \* attribute lists on the master row
       << <<"ID", {"1", "2"}>>, <<"Attribute 1 value(s)", {"M | L", "|"}>>,
          <<"Attribute 2 value(s)", {"", "Red, Blue"}>> >>,
       \* attribute name columns, out of index order
       << <<"ID", {"1"}>>, <<"Attribute name 2", {"Color", ""}>>,
          <<"Attribute name 1", {"Size"}>>, <<"Attribute value 2", {"R;B"}>>,
          <<"Attribute value 1", {"M", ""}>> >>,
       << <<"ID", {"1"}>>, <<"Attribute name 1", {"Size"}>>, <<"Attribute name 2", {"Color"}>>,
          <<"Attribute name 3", {"Fit"}>>, <<"Attribute name 4", {"Cut"}>>,
          <<"Attribute value 1", {"M", "M|L"}>> >>,
       \* four attributes
       << <<"ID", {"1"}>>, <<"Attribute 1", {"S", "S,M"}>>, <<"Attribute 2", {"Red"}>>,
          <<"Attribute 3", {"Wool"}>>, <<"Attribute 4", {"Slim", ""}>> >>,
       \* Wix
       << <<"handleId", {"p1", "p2"}>>, <<"name", {"Cup"}>>,
          <<"media", {"", "a.jpg;b.jpg", "https://x.io/c.png"}>> >>,
       \* WooCommerce, variation rows with images and product-level fields
       << <<"ID", {"1"}>>, <<"Type", {"variable", "variation"}>>, <<"Name", {"Mug"}>>,
          <<"Description", {"Nice"}>>, <<"Tags", {"new"}>>, <<"Brand", {"Acme"}>>,
          <<"Images", {"", "u.png, v.png"}>>, <<"Attribute 1", {"S"}>> >>,
       \* PrestaShop
       << <<"id_product", {"1", "2"}>>, <<"reference", {"R1"}>>,
          <<"categories", {"Home"}>>, <<"price", {"3.5", "abc"}>> >>,
       \* a WooCommerce export: the index stands before the qualifier
       << <<"ID", {"1"}>>, <<"Attribute 1 name", {"Size"}>>,
          <<"Attribute 1 value(s)", {"M | L", ""}>>, <<"attribute_pa_color", {"red", ""}>> >>,
       \* no platform's headers
       << <<"Title", {"Hat", "  ", "!!!", "Product 0"}>>, <<"Price", {"1"}>>,
          <<"Gallery", {"g.png"}>> >> >>

HeadersOf(layout) == [j \in 1..Len(layout) |-> layout[j][1]]

\* every row of a layout: one cell of each header's set
RECURSIVE RowsOf(_)
RowsOf(layout) ==
    IF Len(layout) = 1
    THEN {layout[1][1] :> v : v \in layout[1][2]}
    ELSE {(layout[1][1] :> v) @@ r : v \in layout[1][2], r \in RowsOf(Tail(layout))}

TablesOf(layout) == UNION {[1..n -> RowsOf(layout)] : n \in 0..MaxRows}

\* The functions of the header row alone, evaluated once for each header row
\* of the model: OfHeaders(cols).f is f(cols).
HeaderResults ==
    [k \in 1..Len(Layouts) |->
        [file_type |-> detect_file_type(HeadersOf(Layouts[k])),
         common    |-> detect_common_columns(HeadersOf(Layouts[k])),
         attrs     |-> find_attribute_columns(HeadersOf(Layouts[k]))]]

OfHeaders(cols) ==
    HeaderResults[CHOOSE k \in 1..Len(Layouts) : HeadersOf(Layouts[k]) = cols]

\* convert_woocommerce_df_to_shopify as a function of the table
convert_woocommerce_df_to_shopify(cols, rows) ==
    LET cm    == OfHeaders(cols).common
        attrs == OfHeaders(cols).attrs
        gs    == GroupBy(rows, IdColumn(cols, cm))
        F[k \in 0..Len(gs)] ==
            IF k = 0 THEN <<>>
            ELSE F[k - 1] \o build_shopify_rows_from_group(
                                RowsOfGroup(rows, gs[k]), gs[k][1] - 1, cm,
                                attrs[1], attrs[2], "woocommerce")
    IN  DataFrameOf(F[Len(gs)])

-----------------------------------------------------------------------------
(* convert_csv_path_to_shopify_csv as a state machine.                     *)

Init ==
    /\ \E k \in 1..Len(Layouts) :
          /\ columns = HeadersOf(Layouts[k])
          /\ data \in TablesOf(Layouts[k])
    /\ pc = "read"
    /\ file_type = ""
    /\ source_type = ""
    /\ common = detect_common_columns(<<>>)
    /\ attr_names = <<>>
    /\ attr_values = <<>>
    /\ id_col = NoCol
    /\ grouped = <<>>
    /\ gi = 0
    /\ out_rows = <<>>
    /\ origin = <<>>
    /\ out_df = <<>>

\* file_type = detect_file_type(df)
DetectFileType ==
    /\ pc = "read"
    /\ file_type' = OfHeaders(columns).file_type
    /\ pc' = "detected"
    /\ UNCHANGED <<columns, data, source_type, common, attr_names, attr_values,
                   id_col, grouped, gi, out_rows, origin, out_df>>

\* the part of a converter that precedes its loop over the groups
StartConvert(src) ==
    LET cm    == OfHeaders(columns).common
        attrs == OfHeaders(columns).attrs
        idc   == IdColumn(columns, cm)
    IN  /\ source_type' = src
        /\ common' = cm
        /\ attr_names' = attrs[1]
        /\ attr_values' = attrs[2]
        /\ id_col' = idc
        /\ grouped' = GroupBy(data, idc)
        /\ gi' = 0
        /\ out_rows' = <<>>
        /\ origin' = <<>>
        /\ pc' = "building"
        /\ UNCHANGED <<columns, data, file_type, out_df>>

ConvertWix == pc = "detected" /\ file_type = "wix" /\ StartConvert("wix")

ConvertWoocommerce ==
    pc = "detected" /\ file_type = "woocommerce" /\ StartConvert("woocommerce")

\* the else branch: any other tag is converted as WooCommerce
ConvertFallback ==
    pc = "detected" /\ file_type \notin {"wix", "woocommerce"} /\ StartConvert("woocommerce")

\* one iteration of "for pid, group in grouped"
BuildGroup ==
    /\ pc = "building"
    /\ gi < Len(grouped)
    /\ LET g    == grouped[gi + 1]
           rows == build_shopify_rows_from_group(RowsOfGroup(data, g), g[1] - 1, common,
                                                 attr_names, attr_values, source_type)
       IN  /\ out_rows' = out_rows \o rows
           /\ origin' = origin \o [i \in 1..Len(rows) |-> gi + 1]
    /\ gi' = gi + 1
    /\ UNCHANGED <<columns, data, pc, file_type, source_type, common, attr_names,
                   attr_values, id_col, grouped, out_df>>

\* out_df = pd.DataFrame(out_rows, ...).fillna(""); out_df.to_csv(...)
SaveCsv ==
    /\ pc = "building"
    /\ gi = Len(grouped)
    /\ out_df' = DataFrameOf(out_rows)
    /\ pc' = "saved"
    /\ UNCHANGED <<columns, data, file_type, source_type, common, attr_names,
                   attr_values, id_col, grouped, gi, out_rows, origin>>

Next ==
    \/ DetectFileType
    \/ ConvertWix
    \/ ConvertWoocommerce
    \/ ConvertFallback
    \/ BuildGroup
    \/ SaveCsv

Spec == Init /\ [][Next]_vars

-----------------------------------------------------------------------------
(* What the claims speak of.  A group is examined in the state that        *)
(* follows its BuildGroup step, where it is the last group built: every    *)
(* group of every table is the last one built in exactly one state.        *)

Built == pc = "building" /\ gi >= 1

\* the source rows of group k, and the rows the builder returned for it
GroupIn(k) == RowsOfGroup(data, grouped[k])

GroupOut(k) ==
    LET I == {i \in 1..Len(out_rows) : origin[i] = k}
    IN  [j \in 1..Cardinality(I) |-> out_rows[Min(I) + j - 1]]

ExplicitCount(group) == Cardinality({i \in 1..Len(group) : IsVariationRow(group[i])})

RECURSIVE SizeProduct(_)
SizeProduct(lists) ==
    IF lists = <<>> THEN 1 ELSE Len(Head(lists)) * SizeProduct(Tail(lists))

ListsOfGroup(k) == DiscoveredLists(GroupIn(k)[1], attr_names, attr_values)

\* C1: the number of rows emitted for a group is the number of its explicit
\* variant rows if it has any, else the size of the Cartesian product of the
\* attribute-value lists discovered on its master row if any list was
\* discovered, else 1.
C1_RowCount ==
    Built =>
        LET n     == ExplicitCount(GroupIn(gi))
            lists == ListsOfGroup(gi)
        IN  Len(GroupOut(gi)) =
                IF n > 0 THEN n
                ELSE IF lists # <<>> THEN SizeProduct(lists)
                ELSE 1

\* a group without variant rows whose master row holds two lists of two
\* values has produced four rows
C1_Witness ==
    /\ Built
    /\ ExplicitCount(GroupIn(gi)) = 0
    /\ Len(ListsOfGroup(gi)) = 2
    /\ \A j \in 1..2 : Len(ListsOfGroup(gi)[j]) = 2
    /\ Len(GroupOut(gi)) = 4

\* C2: every group yields at least one destination row.
C2_AtLeastOneRow == Built => Len(GroupOut(gi)) >= 1

Saved == pc = "saved"

\* the product identifier of the source rows that produced output row i
Pid(i) == GroupKey(data, grouped[origin[i]][1], id_col)

\* the first source row that carries identifier p
FirstRow(p) == Min({r \in 1..Len(data) : GroupKey(data, r, id_col) = p})

\* C3: in the written table the rows of one product identifier are
\* contiguous and share one Handle, the products come in the order of their
\* identifiers' first source rows, and the table holds the builder's rows
\* one for one, in the order they were emitted.
C3_ContiguousGroups ==
    Saved =>
        /\ Len(out_df) = Len(out_rows)
        /\ \A i \in 1..Len(out_rows) : \A c \in ColumnSet :
              c \in DOMAIN out_rows[i] => out_df[i][c] = out_rows[i][c]
        /\ \A i \in 1..Len(out_df) : \A k \in (i + 1)..Len(out_df) :
              IF Pid(i) = Pid(k)
              THEN /\ out_df[i]["Handle"] = out_df[k]["Handle"]
                   /\ \A j \in i..k : Pid(j) = Pid(i)
              ELSE FirstRow(Pid(i)) < FirstRow(Pid(k))

\* a table whose first and third rows share an identifier that the second
\* row does not carry has been written, each product with rows of its own
C3_Witness ==
    /\ Saved
    /\ Len(data) >= 3
    /\ GroupKey(data, 1, id_col) = GroupKey(data, 3, id_col)
    /\ GroupKey(data, 1, id_col) # GroupKey(data, 2, id_col)
    /\ Len(grouped) = 2
    /\ \A k \in 1..2 : \E i \in 1..Len(out_df) : origin[i] = k

\* C4: every destination row maps exactly the canonical columns, each to a
\* string; this holds of the rows the builder returns and of the rows of
\* the written table.  (A row is a function of the column name: the order
\* of the columns is that of SHOPIFY_COLUMNS, which the writer is given.)
C4_AllColumnsStrings ==
    /\ Cardinality(ColumnSet) = Len(SHOPIFY_COLUMNS)
    /\ Built => LET out == GroupOut(gi)
                 IN  \A i \in 1..Len(out) :
                        /\ DOMAIN out[i] = ColumnSet
                        /\ \A c \in ColumnSet : out[i][c] \in STRING
    /\ Saved => \A i \in 1..Len(out_df) :
                   /\ DOMAIN out_df[i] = ColumnSet
                   /\ \A c \in ColumnSet : out_df[i][c] \in STRING

\* a Wix table has been written and its first row holds the empty string
\* in columns the builder never sets
C4_Witness ==
    /\ Saved
    /\ file_type = "wix"
    /\ Len(out_df) >= 1
    /\ out_df[1]["Gift Card"] = "" /\ out_df[1]["Image Alt Text"] = ""
    /\ out_df[1]["Variant Image"] # ""

\* the number of terms that some lower-cased header contains
TermsMatched(terms) ==
    Cardinality({k \in 1..Len(terms) :
        \E j \in 1..Len(columns) : Contains(Lower(columns[j]), terms[k])})

TagByRules ==
    IF \E j \in 1..Len(columns) : Contains(Lower(columns[j]), "media") THEN "wix"
    ELSE IF TermsMatched(woo_indicators) >= 2 THEN "woocommerce"
    ELSE IF TermsMatched(prestashop_indicators) >= 2 THEN "prestashop"
    ELSE "unknown"

MasterOf(k) == MasterFields(GroupIn(k)[1], grouped[k][1] - 1, common, source_type)

\* the explicit variant rows of group k, as the builder selects them
VarRowsOf(k) == VariationRows(GroupIn(k))

\* the value a variant field is to take: the row's own cell, normalised,
\* when the field's column is mapped and the cell is not empty; the
\* master's value otherwise
OwnOrMaster(vr, col, own, inherited) ==
    IF col # NoCol /\ vr[col] # "" THEN own ELSE inherited

\* C6: for every explicit variant row, each of sku, price, stock, barcode
\* and weight in the emitted row is the row's own cell when that cell is not
\* empty and the master row's value when it is empty.
C6_Inheritance ==
    (Built /\ VarRowsOf(gi) # <<>>) =>
        \A k \in 1..Len(VarRowsOf(gi)) :
            LET vr  == VarRowsOf(gi)[k]
                m   == MasterOf(gi)
                out == GroupOut(gi)[k]
            IN  /\ out["Variant SKU"] =
                      OwnOrMaster(vr, common.sku, Strip(Get(vr, common.sku, "")), m.sku)
                /\ out["Variant Price"] =
                      OwnOrMaster(vr, common.price, clean_price(Get(vr, common.price, "")), m.price)
                /\ out["Variant Inventory Qty"] =
                      OwnOrMaster(vr, common.stock, Strip(Get(vr, common.stock, "")), m.stock)
                /\ out["Variant Barcode"] =
                      OwnOrMaster(vr, common.barcode, Strip(Get(vr, common.barcode, "")), m.barcode)
                /\ out["Variant Grams"] =
                      OwnOrMaster(vr, common.weight, clean_weight(Get(vr, common.weight, "")), m.weight)

Converting == pc \in {"building", "saved"}

\* the groups that hold source row r
GroupsOfRow(r) == {k \in 1..Len(grouped) : \E j \in 1..Len(grouped[k]) : grouped[k][j] = r}

\* every source row is listed once, by one group
ExactlyOneGroup ==
    /\ \A r \in 1..Len(data) : Cardinality(GroupsOfRow(r)) = 1
    /\ \A k \in 1..Len(grouped) :
          /\ Len(grouped[k]) >= 1
          /\ \A j \in 1..Len(grouped[k]) : grouped[k][j] \in 1..Len(data)
          /\ \A j \in 2..Len(grouped[k]) : grouped[k][j - 1] < grouped[k][j]

\* the cell a row is told apart by: that of the column mapped to the id
\* field, else that of the first column, else (a table without columns) the
\* row's position
KeyCell(r) ==
    IF common.id # NoCol THEN data[r][common.id]
    ELSE IF Len(columns) > 0 THEN data[r][columns[1]]
    ELSE IntToStr(r - 1)

MappedTypeIsVariation(r) ==
    common.type # NoCol /\ Lower(Get(r, common.type, "")) = "variation"

\* C8: a row of a group is an explicit variant row exactly when its cell in
\* the column mapped to the type field is "variation" in any letter case; a
\* group with such rows yields one destination row for each of them.
C8_TypeField ==
    Built =>
        LET group == GroupIn(gi)
            n     == Cardinality({i \in 1..Len(group) : MappedTypeIsVariation(group[i])})
        IN  /\ \A i \in 1..Len(group) :
                  IsVariationRow(group[i]) <=> MappedTypeIsVariation(group[i])
            /\ n > 0 => Len(GroupOut(gi)) = n

\* the place of name column i when the name columns are put in ascending
\* order of their numeric index
NameRank(i) ==
    1 + Cardinality({j \in 1..Len(attr_names) :
            \/ NumKey(attr_names[j][1]) < NumKey(attr_names[i][1])
            \/ NumKey(attr_names[j][1]) = NumKey(attr_names[i][1]) /\ j < i})

\* the name of option slot s for a group whose master row is master
ExpectedOptionName(master, s) ==
    IF attr_names # <<>>
    THEN IF s <= Len(attr_names)
         THEN master[attr_names[CHOOSE i \in 1..Len(attr_names) : NameRank(i) = s][2]]
         ELSE ""
    ELSE IF s <= Len(attr_values) THEN "Option" \o IntToStr(s) ELSE ""

OptionNameColumns == <<"Option1 Name", "Option2 Name", "Option3 Name">>

\* C9: on every row of a group the option names are the master row's cells
\* of the attribute-name columns in ascending order of their numeric index
\* when there are name columns, else "Option1", "Option2", "Option3" for the
\* value columns in order; three slots at most are filled, a slot without
\* an option is empty, and a fourth option adds no column to the row.
C9_OptionNames ==
    Built =>
        LET out == GroupOut(gi)
        IN  \A j \in 1..Len(out) :
                /\ \A s \in 1..Len(OptionNameColumns) :
                      out[j][OptionNameColumns[s]] = ExpectedOptionName(GroupIn(gi)[1], s)
                /\ DOMAIN out[j] \subseteq ColumnSet

\* the name column of index 2 stands before that of index 1 in the header,
\* and the rows of the group name option 1 by the column of index 1
C9_Witness ==
    /\ Built
    /\ Len(attr_names) = 2
    /\ NumKey(attr_names[1][1]) > NumKey(attr_names[2][1])
    /\ Len(GroupOut(gi)) >= 1
    /\ GroupOut(gi)[1]["Option1 Name"] = "Size"
    /\ GroupOut(gi)[1]["Option2 Name"] = "Color"

ProductColumns ==
    {"Title", "Body (HTML)", "Vendor", "Type", "Tags", "Published", "Status",
     "Image Src", "Image Position"}

\* the variant records of group k
VariantsOf(k) ==
    Variants(GroupIn(k), MasterOf(k), common, attr_names, attr_values, source_type)

\* C10: of the rows emitted for a group the first carries the product-level
\* fields and the product image slot; every later row has those columns
\* empty and carries the Handle of the first; each row whose variant has an
\* image has that variant's first image as its Variant Image.
C10_FirstRowOnly ==
    Built =>
        LET out == GroupOut(gi)
            vs  == VariantsOf(gi)
            m   == MasterOf(gi)
        IN  /\ Len(out) = Len(vs)
            /\ Len(out) >= 1 =>
                  /\ out[1]["Title"] = m.title /\ out[1]["Body (HTML)"] = m.desc
                  /\ out[1]["Vendor"] = m.vendor /\ out[1]["Type"] = m.product_type
                  /\ out[1]["Tags"] = m.tags
                  /\ out[1]["Published"] = "TRUE" /\ out[1]["Status"] = "active"
                  /\ vs[1].images # <<>> =>
                        /\ out[1]["Image Src"] = vs[1].images[1]
                        /\ out[1]["Image Position"] = "1"
            /\ \A j \in 2..Len(out) :
                  /\ \A c \in ProductColumns : out[j][c] = ""
                  /\ out[j]["Handle"] = out[1]["Handle"]
            /\ \A j \in 1..Len(out) :
                  vs[j].images # <<>> => out[j]["Variant Image"] = vs[j].images[1]

\* a product with two variation rows, the second with images of its own,
\* has produced two rows: the title on the first alone, the second with its
\* own first image
C10_Witness ==
    /\ Built
    /\ Len(GroupOut(gi)) = 2
    /\ GroupOut(gi)[1]["Title"] = "Mug"
    /\ GroupOut(gi)[1]["Image Src"] = ""
    /\ GroupOut(gi)[2]["Title"] = ""
    /\ GroupOut(gi)[2]["Variant Image"] = "u.png"

\* the title of group k is missing or blank
BlankTitle(k) == MasterOf(k).title = ""

\* C11: a product whose title is missing or blank has in every row a handle
\* that is not empty, begins with "product-", and is the handle of no row
\* of another product group of the same conversion.
C11_UniqueHandle ==
    Saved =>
        \A i \in 1..Len(out_df) :
            BlankTitle(origin[i]) =>
                /\ out_df[i]["Handle"] # ""
                /\ StartsWith(out_df[i]["Handle"], "product-")
                /\ \A k \in 1..Len(out_df) :
                      origin[k] # origin[i] => out_df[k]["Handle"] # out_df[i]["Handle"]

CurrencySymbols == {"€", "$", "£"}

\* the text of a price cell without its currency symbols and blanks
Amount(cell) == RemoveChars(cell, CurrencySymbols \cup Whitespace)

\* the cell is an amount written with a decimal comma: digits, one comma,
\* one or two digits
IsDecimalComma(cell) ==
    LET a      == Amount(cell)
        commas == {i \in 1..Len(a) : Char(a, i) = ","}
    IN  /\ Cardinality(commas) = 1
        /\ \A i \in 1..Len(a) : Char(a, i) \in Digits \cup {","}
        /\ Min(commas) > 1
        /\ Len(a) - Min(commas) \in {1, 2}

\* the same amount written with a decimal point
DotDecimal(cell) ==
    LET a      == Amount(cell)
        commas == {i \in 1..Len(a) : Char(a, i) = ","}
    IN  SubSeq(a, 1, Min(commas) - 1) \o "." \o SubSeq(a, Min(commas) + 1, Len(a))

\* no number can be read from the cell: it holds no digit and none of the
\* words float() takes for a number
NotANumber(cell) ==
    /\ \A i \in 1..Len(cell) : Char(cell, i) \notin Digits
    /\ ~Contains(Lower(cell), "inf") /\ ~Contains(Lower(cell), "nan")

\* the rows of group k whose price was read from the master row
PriceFromMaster(k) == IF VarRowsOf(k) = <<>> THEN 1..Len(GroupOut(k)) ELSE {}

\* C12: for a price cell with a currency symbol and a decimal comma
\* clean_price gives the amount with a decimal point ("€ 19,99" gives
\* "19.99"), for a cell no number can be read from it gives the empty
\* string, and the row built from the cell carries that price.
C12_CleanPrice ==
    (Built /\ common.price # NoCol) =>
        LET cell == GroupIn(gi)[1][common.price]
            out  == GroupOut(gi)
        IN  /\ IsDecimalComma(cell) =>
                  /\ clean_price(cell) = DotDecimal(cell)
                  /\ \A j \in PriceFromMaster(gi) : out[j]["Variant Price"] = DotDecimal(cell)
            /\ NotANumber(cell) =>
                  /\ clean_price(cell) = ""
                  /\ \A j \in PriceFromMaster(gi) : out[j]["Variant Price"] = ""

HasDigit(lc) == DigitPositionsFrom(lc, 1) # {}

\* the index a header carries: its first run of digits
IndexOf(lc) ==
    LET p == Min(DigitPositionsFrom(lc, 1)) IN SubSeq(lc, p, DigitRunEnd(lc, p))

\* an indexed attribute header qualified as a name, English or Italian
NameQualified(lc) ==
    /\ HasDigit(lc)
    /\ \/ Contains(lc, "attribute") /\ Contains(lc, "name")
       \/ Contains(lc, "nome") /\ Contains(lc, "attributo")

\* an indexed attribute header qualified as a value
ValueQualified(lc) ==
    HasDigit(lc) /\ Contains(lc, "attribute") /\ Contains(lc, "value") /\ ~Contains(lc, "name")

\* "attribute N" and nothing else
Unqualified(lc) ==
    /\ StartsWith(lc, "attribute")
    /\ LET rest == Strip(SubSeq(lc, Len("attribute") + 1, Len(lc)))
       IN  rest # "" /\ \A i \in 1..Len(rest) : Char(rest, i) \in Digits

ValueColumns == {attr_values[i][2] : i \in 1..Len(attr_values)}

\* C13: of the headers of the table, one qualified as a name with index N
\* (as "Attribute 1 name") is the name column of N and no value column; one
\* qualified as a value with index N is the value column of N; a bare
\* "Attribute N" is the value column of N unless an earlier header is; an
\* "attribute_pa_*" header is a value column under its lower-cased text.
C13_AttributeRules ==
    Converting =>
        \A j \in 1..Len(columns) :
            LET c  == columns[j]
                lc == Lower(c)
            IN  /\ NameQualified(lc) =>
                      /\ HasKey(attr_names, IndexOf(lc))
                      /\ Lookup(attr_names, IndexOf(lc)) = c
                      /\ c \notin ValueColumns
                /\ ValueQualified(lc) =>
                      /\ HasKey(attr_values, IndexOf(lc))
                      /\ Lookup(attr_values, IndexOf(lc)) = c
                /\ Unqualified(lc) =>
                      /\ HasKey(attr_values, IndexOf(lc))
                      /\ \/ Lookup(attr_values, IndexOf(lc)) = c
                         \/ \E j2 \in 1..(j - 1) : Lookup(attr_values, IndexOf(lc)) = columns[j2]
                /\ Contains(lc, "attribute_pa_") =>
                      /\ HasKey(attr_values, lc)
                      /\ Lookup(attr_values, lc) = c

OptionValueColumns == <<"Option1 Value", "Option2 Value", "Option3 Value">>

\* the number of option slots that carry a name
NamedSlots ==
    Min({Len(OptionNameColumns),
         IF attr_names # <<>> THEN Len(attr_names) ELSE Len(attr_values)})

\* the value column of the attribute whose name stands in slot k: with name
\* columns, the value column of the index of the k-th name column in index
\* order; without, the k-th value column
SlotValueColumn(k) ==
    IF attr_names # <<>>
    THEN LET idx == attr_names[CHOOSE i \in 1..Len(attr_names) : NameRank(i) = k][1]
         IN  IF HasKey(attr_values, idx) THEN Lookup(attr_values, idx) ELSE NoCol
    ELSE attr_values[k][2]

\* what a slot may hold when its attribute has no value
NoValue == {"", "Default Title"}

\* the values slot k may take in the row built from explicit variant row vr
SlotValuesOfRow(vr, k) ==
    LET col == SlotValueColumn(k)
    IN  IF col # NoCol /\ Strip(vr[col]) # "" THEN {Strip(vr[col])} ELSE NoValue

\* the values slot k may take in a row synthesized from the master row
SlotValuesOfMaster(master, k) ==
    LET col  == SlotValueColumn(k)
        vals == IF col # NoCol THEN parse_attribute_values(master[col]) ELSE <<>>
    IN  IF vals # <<>> THEN {vals[i] : i \in 1..Len(vals)} ELSE NoValue

\* C14: in every emitted row the value of option slot k is a value of the
\* attribute whose name stands in slot k: the variant row's own cell of
\* that attribute for an explicit variant, one of the master row's listed
\* values of that attribute for a synthesized variant, and no value of
\* another attribute when that attribute has none.
C14_OptionsAligned ==
    Built =>
        LET out == GroupOut(gi)
            vrs == VarRowsOf(gi)
        IN  \A j \in 1..Len(out) : \A k \in 1..NamedSlots :
                out[j][OptionValueColumns[k]] \in
                    IF vrs # <<>> THEN SlotValuesOfRow(vrs[j], k)
                    ELSE SlotValuesOfMaster(GroupIn(gi)[1], k)

=============================================================================
